---- MODULE Spec2Model ----
(***************************************************************************)
(* The AI Debate Team agent graph of src/debate_team/agent.py and the      *)
(* execution of that graph: a dispatcher (DebateTeamGreeter) that hands    *)
(* off to a sequential workflow (AIDebateWorkflow) made of a leaf, a       *)
(* parallel stage, a bounded loop and two more leaves.                     *)
(*                                                                         *)
(* The graph (names, sub_agents, output keys, instruction templates, tools *)
(* and the loop bound) is transcribed from agent.py.  The engine that runs *)
(* the graph (SequentialAgent, ParallelAgent, LoopAgent, the leaf          *)
(* invocation and the transfer dispatch) is a library that agent.py only   *)
(* imports; its steps are modelled from the behaviour agent.py documents   *)
(* in its pattern notes and from the specification's component design.     *)
(***************************************************************************)
EXTENDS Integers, Sequences, FiniteSets

\* ------------------------------------------------------------------ bounds
\* The number of user turns (top-level invocations) explored.
MaxTurns == 2
\* Cap on the child executions of one loop run that the model follows; it
\* only binds for a loop configured without max_iterations.
MaxLoopSteps == 10

\* Bound on the messages the user types into one run of test_deployment.py.
MaxQueries == 3

\* ------------------------------------------------------------- the graph
\* A loop declared without max_iterations (0 stands for no limit).
max_iterations_unset(l) == 0

\* agent.py:365
max_iterations(l) == CASE l = "IterativeDebateLoop" -> 8

\* The loop's children in the other order (OpponentDebater listed first).
iterative_debate_loop_sub_agents_swapped ==
  <<"OpponentDebater", "ProponentDebater">>

\* The loop with only the first debater as a child.
iterative_debate_loop_sub_agents_single == <<"ProponentDebater">>

\* agent.py:361
iterative_debate_loop_sub_agents == <<"ProponentDebater", "OpponentDebater">>

\* The parallel stage with the opponent's researcher left out.
parallel_stance_researcher_sub_agents_one == <<"ProponentResearcher">>

\* agent.py:256
parallel_stance_researcher_sub_agents ==
  <<"ProponentResearcher", "OpponentResearcher">>

\* The pipeline with the analyst listed before the loop.
debate_workflow_sub_agents_reordered ==
  <<"RoleAssignmentAgent", "ParallelStanceResearcher",
    "DebateStrategicAnalyst", "IterativeDebateLoop", "DebateSummarizerAgent">>

\* agent.py:508-514
debate_workflow_sub_agents ==
  <<"RoleAssignmentAgent", "ParallelStanceResearcher", "IterativeDebateLoop",
    "DebateStrategicAnalyst", "DebateSummarizerAgent">>

\* agent.py:523-524, the agent the user talks to
root_agent == "DebateTeamGreeter"

LlmAgents ==
  {"DebateTeamGreeter", "RoleAssignmentAgent", "ProponentResearcher",
   "OpponentResearcher", "ProponentDebater", "OpponentDebater",
   "DebateStrategicAnalyst", "DebateSummarizerAgent"}

SequentialAgents == {"AIDebateWorkflow"}
ParallelAgents == {"ParallelStanceResearcher"}
LoopAgents == {"IterativeDebateLoop"}

\* The agents of agent.py together with one more agent, named DebateGreeter.
Agents_with_alias ==
  LlmAgents \cup SequentialAgents \cup ParallelAgents \cup LoopAgents
    \cup {"DebateGreeter"}

Agents == LlmAgents \cup SequentialAgents \cup ParallelAgents \cup LoopAgents

\* The children a composite agent executes.  (The greeter's sub_agents entry,
\* agent.py:582, names an agent it may transfer to, not a child it runs.)
sub_agents(t) ==
  CASE t = "AIDebateWorkflow" -> debate_workflow_sub_agents
    [] t = "ParallelStanceResearcher" -> parallel_stance_researcher_sub_agents
    [] t = "IterativeDebateLoop" -> iterative_debate_loop_sub_agents
    [] OTHER -> << >>

Range(s) == {s[i] : i \in 1..Len(s)}

\* The sub_agents= argument each agent is constructed with, as a set: the
\* greeter is given the workflow (agent.py:582), the composites their
\* children, every other LlmAgent none.
declared_sub_agents(a) ==
  IF a = "DebateTeamGreeter" THEN {"AIDebateWorkflow"} ELSE Range(sub_agents(a))

\* All agents composed under t, t included (the tree is three levels deep).
Subtree(t) ==
  LET l1 == Range(sub_agents(t))
      l2 == UNION {Range(sub_agents(c)) : c \in l1}
  IN  {t} \cup l1 \cup l2

\* output_key with the opponent's researcher given the proponent's key.
output_key_researchers_collide(a) ==
  CASE a = "DebateTeamGreeter" -> "debate_topic"
    [] a = "RoleAssignmentAgent" -> "role_assignments"
    [] a = "ProponentResearcher" -> "proponent_research_findings"
    [] a = "OpponentResearcher" -> "proponent_research_findings"
    [] a = "ProponentDebater" -> "current_round"
    [] a = "OpponentDebater" -> "current_round"
    [] a = "DebateStrategicAnalyst" -> "debate_analysis"
    [] a = "DebateSummarizerAgent" -> "final_debate_summary"

\* output_key with the greeter's text stored under another agent's key.
output_key_greeter_other_key(a) ==
  CASE a = "DebateTeamGreeter" -> "role_assignments"
    [] a = "RoleAssignmentAgent" -> "role_assignments"
    [] a = "ProponentResearcher" -> "proponent_research_findings"
    [] a = "OpponentResearcher" -> "opponent_research_findings"
    [] a = "ProponentDebater" -> "current_round"
    [] a = "OpponentDebater" -> "current_round"
    [] a = "DebateStrategicAnalyst" -> "debate_analysis"
    [] a = "DebateSummarizerAgent" -> "final_debate_summary"

\* output_key with the analyst's text stored under the summarizer's key.
output_key_analyst_writes_summary(a) ==
  CASE a = "DebateTeamGreeter" -> "debate_topic"
    [] a = "RoleAssignmentAgent" -> "role_assignments"
    [] a = "ProponentResearcher" -> "proponent_research_findings"
    [] a = "OpponentResearcher" -> "opponent_research_findings"
    [] a = "ProponentDebater" -> "current_round"
    [] a = "OpponentDebater" -> "current_round"
    [] a = "DebateStrategicAnalyst" -> "final_debate_summary"
    [] a = "DebateSummarizerAgent" -> "final_debate_summary"

\* output_key with OpponentDebater's text stored under a key of its own use.
output_key_opponent_debater_other_key(a) ==
  CASE a = "DebateTeamGreeter" -> "debate_topic"
    [] a = "RoleAssignmentAgent" -> "role_assignments"
    [] a = "ProponentResearcher" -> "proponent_research_findings"
    [] a = "OpponentResearcher" -> "opponent_research_findings"
    [] a = "ProponentDebater" -> "current_round"
    [] a = "OpponentDebater" -> "debate_analysis"
    [] a = "DebateStrategicAnalyst" -> "debate_analysis"
    [] a = "DebateSummarizerAgent" -> "final_debate_summary"

\* output_key of every LlmAgent
output_key(a) ==
  CASE a = "DebateTeamGreeter" -> "debate_topic"
    [] a = "RoleAssignmentAgent" -> "role_assignments"
    [] a = "ProponentResearcher" -> "proponent_research_findings"
    [] a = "OpponentResearcher" -> "opponent_research_findings"
    [] a = "ProponentDebater" -> "current_round"
    [] a = "OpponentDebater" -> "current_round"
    [] a = "DebateStrategicAnalyst" -> "debate_analysis"
    [] a = "DebateSummarizerAgent" -> "final_debate_summary"

Keys ==
  {"debate_topic", "role_assignments", "proponent_research_findings",
   "opponent_research_findings", "current_round", "debate_analysis",
   "final_debate_summary"}

\* The templates with {current_round} also referenced by ProponentDebater.
instruction_keys_debater_reads_round(a) ==
  CASE a = "DebateTeamGreeter" -> {}
    [] a = "RoleAssignmentAgent" -> {}
    [] a = "ProponentResearcher" -> {"role_assignments"}
    [] a = "OpponentResearcher" -> {"role_assignments"}
    [] a = "ProponentDebater" ->
         {"role_assignments", "proponent_research_findings",
          "opponent_research_findings", "current_round"}
    [] a = "OpponentDebater" ->
         {"role_assignments", "opponent_research_findings",
          "proponent_research_findings"}
    [] a = "DebateStrategicAnalyst" ->
         {"role_assignments", "proponent_research_findings",
          "opponent_research_findings", "current_round"}
    [] a = "DebateSummarizerAgent" -> {"role_assignments", "debate_analysis"}

\* The templates with {role_assignments} left out of ProponentResearcher's.
instruction_keys_researcher_no_template(a) ==
  CASE a = "DebateTeamGreeter" -> {}
    [] a = "RoleAssignmentAgent" -> {}
    [] a = "ProponentResearcher" -> {}
    [] a = "OpponentResearcher" -> {"role_assignments"}
    [] a = "ProponentDebater" ->
         {"role_assignments", "proponent_research_findings",
          "opponent_research_findings"}
    [] a = "OpponentDebater" ->
         {"role_assignments", "opponent_research_findings",
          "proponent_research_findings"}
    [] a = "DebateStrategicAnalyst" ->
         {"role_assignments", "proponent_research_findings",
          "opponent_research_findings", "current_round"}
    [] a = "DebateSummarizerAgent" -> {"role_assignments", "debate_analysis"}

\* The {key} template variables of every LlmAgent's instruction
instruction_keys(a) ==
  CASE a = "DebateTeamGreeter" -> {}
    [] a = "RoleAssignmentAgent" -> {}
    [] a = "ProponentResearcher" -> {"role_assignments"}
    [] a = "OpponentResearcher" -> {"role_assignments"}
    [] a = "ProponentDebater" ->
         {"role_assignments", "proponent_research_findings",
          "opponent_research_findings"}
    [] a = "OpponentDebater" ->
         {"role_assignments", "opponent_research_findings",
          "proponent_research_findings"}
    [] a = "DebateStrategicAnalyst" ->
         {"role_assignments", "proponent_research_findings",
          "opponent_research_findings", "current_round"}
    [] a = "DebateSummarizerAgent" -> {"role_assignments", "debate_analysis"}

\* tools as in agent.py, but with end_debate_tool also given to the analyst.
tools_analyst_can_end(a) ==
  CASE a = "DebateTeamGreeter" -> {"start_debate_workflow"}
    [] a = "ProponentResearcher" -> {"google_search"}
    [] a = "OpponentResearcher" -> {"google_search"}
    [] a = "ProponentDebater" -> {"end_debate"}
    [] a = "OpponentDebater" -> {"end_debate"}
    [] a = "DebateStrategicAnalyst" -> {"end_debate"}
    [] a = "DebateSummarizerAgent" -> {"return_to_greeter"}
    [] OTHER -> {}

\* tools as in agent.py, but with the summarizer given no transfer_tool.
tools_summarizer_no_transfer(a) ==
  CASE a = "DebateTeamGreeter" -> {"start_debate_workflow"}
    [] a = "ProponentResearcher" -> {"google_search"}
    [] a = "OpponentResearcher" -> {"google_search"}
    [] a = "ProponentDebater" -> {"end_debate"}
    [] a = "OpponentDebater" -> {"end_debate"}
    [] OTHER -> {}

\* tools as in agent.py, but with transfer_tool also given to the analyst.
tools_analyst_can_transfer(a) ==
  CASE a = "DebateTeamGreeter" -> {"start_debate_workflow"}
    [] a = "ProponentResearcher" -> {"google_search"}
    [] a = "OpponentResearcher" -> {"google_search"}
    [] a = "ProponentDebater" -> {"end_debate"}
    [] a = "OpponentDebater" -> {"end_debate"}
    [] a = "DebateStrategicAnalyst" -> {"return_to_greeter"}
    [] a = "DebateSummarizerAgent" -> {"return_to_greeter"}
    [] OTHER -> {}

\* tools=[...] of every LlmAgent
tools(a) ==
  CASE a = "DebateTeamGreeter" -> {"start_debate_workflow"}
    [] a = "ProponentResearcher" -> {"google_search"}
    [] a = "OpponentResearcher" -> {"google_search"}
    [] a = "ProponentDebater" -> {"end_debate"}
    [] a = "OpponentDebater" -> {"end_debate"}
    [] a = "DebateSummarizerAgent" -> {"return_to_greeter"}
    [] OTHER -> {}

\* ---------------------------------------------------------- tool functions
\* The actions record a tool call writes into (tool_context.actions).
NoActions == [escalate |-> FALSE, transfer_to_agent |-> "none"]

\* return_to_greeter naming an agent that does not exist.
return_to_greeter_misnamed(acts) ==
  [acts EXCEPT !.transfer_to_agent = "DebateGreeter"]

return_to_greeter(acts) ==
  [acts EXCEPT !.transfer_to_agent = "DebateTeamGreeter"]

\* end_debate that also asks for the transfer back to the greeter.
end_debate_also_transfers(acts) ==
  [acts EXCEPT !.escalate = TRUE, !.transfer_to_agent = "DebateTeamGreeter"]

\* end_debate without the assignment of agent.py:85.
end_debate_no_escalate(acts) == acts

end_debate(acts) == [acts EXCEPT !.escalate = TRUE]

\* start_debate_workflow naming an agent that does not exist.
start_debate_workflow_misnamed(acts) ==
  [acts EXCEPT !.transfer_to_agent = "DebateWorkflow"]

start_debate_workflow(acts) ==
  [acts EXCEPT !.transfer_to_agent = "AIDebateWorkflow"]

\* The effect on the actions record of the set of tools called in one run.
\* No agent has two of the control tools, so the order of application is moot.
ApplyTools(calls, acts) ==
  LET a1 == IF "end_debate" \in calls THEN end_debate(acts) ELSE acts
      a2 == IF "return_to_greeter" \in calls THEN return_to_greeter(a1) ELSE a1
  IN  IF "start_debate_workflow" \in calls THEN start_debate_workflow(a2) ELSE a2


ControlTools == {"end_debate", "return_to_greeter", "start_debate_workflow"}

\* The sets of control tools an agent may call in one run.  The instruction
\* directs the greeter (transfer exactly when it has identified a topic from
\* the user, agent.py:538-553) and the summarizer (always return to the
\* greeter, agent.py:490); any other agent may or may not call a control tool
\* it has (the debaters "may call" end_debate, agent.py:294, 336).
\* A greeter that transfers on every user input, a greeting included.
ToolCalls_greeter_always_transfers(a, input, how) ==
  CASE a = "DebateTeamGreeter" ->
         IF how = "user" THEN {{"start_debate_workflow"} \cap tools(a)} ELSE {{}}
    [] a = "DebateSummarizerAgent" -> {{"return_to_greeter"} \cap tools(a)}
    [] OTHER -> {{}} \cup {{t} : t \in tools(a) \cap ControlTools}

ToolCalls(a, input, how) ==
  CASE a = "DebateTeamGreeter" ->
         IF how = "user" /\ input = "topic"
           THEN {{"start_debate_workflow"} \cap tools(a)}
           ELSE {{}}
    [] a = "DebateSummarizerAgent" -> {{"return_to_greeter"} \cap tools(a)}
    [] OTHER -> {{}} \cup {{t} : t \in tools(a) \cap ControlTools}

\* ------------------------------------------------------------------ state
VARIABLES
  turns,        \* number of user turns so far
  userInput,    \* what the user sent in this turn: "greeting" or "topic"
  inv,          \* the top-level invocation: "idle", "running", "completed", "failed"
  cur,          \* the agent the executor is running at top level
  entered,      \* how cur was entered: "user" or "transfer"
  st,           \* per agent: "idle", "ready", "running", "done", "failed"
  seqIdx,       \* SequentialAgent: index of the current child
  loopIter,     \* LoopAgent: child executions completed
  loopExit,     \* LoopAgent: "none", "early-exit", "bound-exhausted", "error"
  ctx,          \* the shared Context (session state): key -> value
  actions,      \* the Signal: [escalate, transfer_to_agent]
  err,          \* the error of the invocation: [kind, task]
  started,      \* history: the LlmAgents invoked in this invocation, in order
  stageStarts,  \* history: the workflow children started, in order
  loopRuns,     \* history: the loop's child executions, in order
  escalations,  \* history: indices of loopRuns whose run called end_debate
  parCtx0,      \* history: the Context when the parallel stage started
  log,          \* history: the returns of LlmAgents: [agent, key, value, calls]
  td,           \* deployment/test_deployment.py: one run of main
  dp            \* deployment/deploy.py: one run of main

vars ==
  <<turns, userInput, inv, cur, entered, st, seqIdx, loopIter, loopExit, ctx,
    actions, err, started, stageStarts, loopRuns, escalations, parCtx0, log,
    td, dp>>

\* A script that is not being run.
TestIdle == [pc |-> "idle"]
DeployIdle == [pc |-> "idle"]

Absent == [by |-> "none", n |-> 0]
NoError == [kind |-> "none", task |-> "none"]
EmptyContext == [k \in Keys |-> Absent]
Present(c) == {k \in Keys : c[k] # Absent}

Count(a, s) == Cardinality({i \in 1..Len(s) : s[i] = a})

\* The text an agent produces in its current run: opaque, identified by its
\* producer and the ordinal of the run.
Produced(a) == [by |-> a, n |-> Count(a, started)]

Init ==
  /\ turns = 0
  /\ userInput = "none"
  /\ inv = "idle"
  /\ cur = "none"
  /\ entered = "user"
  /\ st = [t \in Agents |-> "idle"]
  /\ seqIdx = 0
  /\ loopIter = 0
  /\ loopExit = "none"
  /\ ctx = EmptyContext
  /\ actions = NoActions
  /\ err = NoError
  /\ started = << >>
  /\ stageStarts = << >>
  /\ loopRuns = << >>
  /\ escalations = {}
  /\ parCtx0 = EmptyContext
  /\ log = << >>
  /\ td = TestIdle
  /\ dp = DeployIdle

\* A user turn that starts the invocation on the Context and the Signal the
\* previous one left.
UserTurn_keeps_state(input, seed) ==
  /\ inv # "running"
  /\ turns < MaxTurns
  /\ turns' = turns + 1
  /\ userInput' = input
  /\ inv' = "running"
  /\ cur' = root_agent
  /\ entered' = "user"
  /\ st' = [t \in Agents |-> IF t = root_agent THEN "ready" ELSE "idle"]
  /\ seqIdx' = 0
  /\ loopIter' = 0
  /\ loopExit' = "none"
  /\ ctx' = IF seed
              THEN [ctx EXCEPT !["debate_topic"] = [by |-> "seed", n |-> 0]]
              ELSE ctx
  /\ actions' = actions
  /\ err' = NoError
  /\ started' = << >>
  /\ stageStarts' = << >>
  /\ loopRuns' = << >>
  /\ escalations' = {}
  /\ parCtx0' = EmptyContext
  /\ log' = << >>
  /\ UNCHANGED <<td, dp>>

\* ------------------------------------------------------------- the executor
\* A user turn starts a top-level invocation: fresh Context (optionally seeded
\* with a remembered topic), fresh Signal, the root agent scheduled.
UserTurn(input, seed) ==
  /\ inv # "running"
  /\ turns < MaxTurns
  /\ turns' = turns + 1
  /\ userInput' = input
  /\ inv' = "running"
  /\ cur' = root_agent
  /\ entered' = "user"
  /\ st' = [t \in Agents |-> IF t = root_agent THEN "ready" ELSE "idle"]
  /\ seqIdx' = 0
  /\ loopIter' = 0
  /\ loopExit' = "none"
  /\ ctx' = IF seed
              THEN [EmptyContext EXCEPT !["debate_topic"] = [by |-> "seed", n |-> 0]]
              ELSE EmptyContext
  /\ actions' = NoActions
  /\ err' = NoError
  /\ started' = << >>
  /\ stageStarts' = << >>
  /\ loopRuns' = << >>
  /\ escalations' = {}
  /\ parCtx0' = EmptyContext
  /\ log' = << >>
  /\ UNCHANGED <<td, dp>>

\* --------------------------------------------------------------- LlmAgent
\* Invocation of a leaf: the instruction template is rendered against the
\* Context; a referenced key that is absent fails the leaf before the model
\* is called.
LlmAgent_start(a) ==
  /\ inv = "running"
  /\ st[a] = "ready"
  /\ started' = Append(started, a)
  /\ loopRuns' = IF a \in Range(iterative_debate_loop_sub_agents)
                   THEN Append(loopRuns, a) ELSE loopRuns
  /\ IF instruction_keys(a) \subseteq Present(ctx)
       THEN /\ st' = [st EXCEPT ![a] = "running"]
            /\ err' = err
       ELSE /\ st' = [st EXCEPT ![a] = "failed"]
            /\ err' = IF err = NoError
                        THEN [kind |-> "MissingKeyError", task |-> a] ELSE err
  /\ UNCHANGED <<turns, userInput, inv, cur, entered, seqIdx, loopIter,
                 loopExit, ctx, actions, stageStarts, escalations, parCtx0, log>>
  /\ UNCHANGED <<td, dp>>

\* The leaf returns: its text is stored under output_key and the actions of
\* the tools it called reach the engine with the result.  (A tool writes into
\* the actions of its own call, tool_context.actions; a run that raises
\* delivers no result and so no actions.)
LlmAgent_return(a) ==
  /\ inv = "running"
  /\ st[a] = "running"
  /\ \E calls \in ToolCalls(a, userInput, entered) :
       /\ actions' = ApplyTools(calls, actions)
       /\ escalations' = IF "end_debate" \in calls
                           THEN escalations \cup {Len(loopRuns)} ELSE escalations
       /\ log' = Append(log, [agent |-> a, key |-> output_key(a),
                              value |-> Produced(a), calls |-> calls])
  /\ ctx' = [ctx EXCEPT ![output_key(a)] = Produced(a)]
  /\ st' = [st EXCEPT ![a] = "done"]
  /\ UNCHANGED <<turns, userInput, inv, cur, entered, seqIdx, loopIter,
                 loopExit, err, started, stageStarts, loopRuns, parCtx0>>
  /\ UNCHANGED <<td, dp>>

\* The leaf raises: the model call failed (CapabilityError); nothing is stored.
LlmAgent_raise(a) ==
  /\ inv = "running"
  /\ st[a] = "running"
  /\ st' = [st EXCEPT ![a] = "failed"]
  /\ err' = IF err = NoError THEN [kind |-> "CapabilityError", task |-> a] ELSE err
  /\ UNCHANGED <<turns, userInput, inv, cur, entered, seqIdx, loopIter,
                 loopExit, ctx, actions, started, stageStarts, loopRuns,
                 escalations, parCtx0, log>>
  /\ UNCHANGED <<td, dp>>

\* -------------------------------------------------------- SequentialAgent
Sequential_start(s) ==
  /\ inv = "running"
  /\ st[s] = "ready"
  /\ s \in SequentialAgents
  /\ seqIdx' = 1
  /\ st' = [st EXCEPT ![s] = "running", ![sub_agents(s)[1]] = "ready"]
  /\ stageStarts' = <<sub_agents(s)[1]>>
  /\ UNCHANGED <<turns, userInput, inv, cur, entered, loopIter, loopExit, ctx,
                 actions, err, started, loopRuns, escalations, parCtx0, log>>
  /\ UNCHANGED <<td, dp>>

\* Child seqIdx has completed: the next child starts, unless it was the last
\* or it left a transfer to an agent outside this stage, which the stage
\* passes upward unresolved.
Sequential_next(s) ==
  /\ inv = "running"
  /\ s \in SequentialAgents
  /\ st[s] = "running"
  /\ st[sub_agents(s)[seqIdx]] = "done"
  /\ IF \/ seqIdx = Len(sub_agents(s))
        \/ actions.transfer_to_agent \notin ({"none"} \cup Subtree(s))
       THEN /\ st' = [st EXCEPT ![s] = "done"]
            /\ UNCHANGED <<seqIdx, stageStarts>>
       ELSE /\ seqIdx' = seqIdx + 1
            /\ st' = [st EXCEPT ![sub_agents(s)[seqIdx + 1]] = "ready"]
            /\ stageStarts' = Append(stageStarts, sub_agents(s)[seqIdx + 1])
  /\ UNCHANGED <<turns, userInput, inv, cur, entered, loopIter, loopExit, ctx,
                 actions, err, started, loopRuns, escalations, parCtx0, log>>
  /\ UNCHANGED <<td, dp>>

\* Child seqIdx has raised: the remaining children are not run.
Sequential_fail(s) ==
  /\ inv = "running"
  /\ s \in SequentialAgents
  /\ st[s] = "running"
  /\ st[sub_agents(s)[seqIdx]] = "failed"
  /\ st' = [st EXCEPT ![s] = "failed"]
  /\ UNCHANGED <<turns, userInput, inv, cur, entered, seqIdx, loopIter,
                 loopExit, ctx, actions, err, started, stageStarts, loopRuns,
                 escalations, parCtx0, log>>
  /\ UNCHANGED <<td, dp>>

\* ---------------------------------------------------------- ParallelAgent
\* Fan-out: every child is scheduled against the same Context.
Parallel_start(p) ==
  /\ inv = "running"
  /\ p \in ParallelAgents
  /\ st[p] = "ready"
  /\ st' = [t \in Agents |->
              IF t = p THEN "running"
              ELSE IF t \in Range(sub_agents(p)) THEN "ready" ELSE st[t]]
  /\ parCtx0' = ctx
  /\ UNCHANGED <<turns, userInput, inv, cur, entered, seqIdx, loopIter,
                 loopExit, ctx, actions, err, started, stageStarts, loopRuns,
                 escalations, log>>
  /\ UNCHANGED <<td, dp>>

\* Fan-in: the stage ends when every child has returned or raised; it fails
\* if one of them raised.
Parallel_join(p) ==
  /\ inv = "running"
  /\ p \in ParallelAgents
  /\ st[p] = "running"
  /\ \A c \in Range(sub_agents(p)) : st[c] \in {"done", "failed"}
  /\ st' = [st EXCEPT ![p] =
              IF \E c \in Range(sub_agents(p)) : st[c] = "failed"
                THEN "failed" ELSE "done"]
  /\ UNCHANGED <<turns, userInput, inv, cur, entered, seqIdx, loopIter,
                 loopExit, ctx, actions, err, started, stageStarts, loopRuns,
                 escalations, parCtx0, log>>
  /\ UNCHANGED <<td, dp>>

\* -------------------------------------------------------------- LoopAgent
\* The child that runs as execution number i (counting from 0).
LoopChild(l, i) == sub_agents(l)[(i % Len(sub_agents(l))) + 1]

Loop_start(l) ==
  /\ inv = "running"
  /\ l \in LoopAgents
  /\ st[l] = "ready"
  /\ loopIter' = 0
  /\ loopExit' = "none"
  /\ st' = [st EXCEPT ![l] = "running", ![LoopChild(l, 0)] = "ready"]
  /\ UNCHANGED <<turns, userInput, inv, cur, entered, seqIdx, ctx, actions,
                 err, started, stageStarts, loopRuns, escalations, parCtx0, log>>
  /\ UNCHANGED <<td, dp>>

\* A child execution has completed.  escalate is checked first: if set the
\* loop ends early and the flag is consumed.  Otherwise the loop ends when
\* max_iterations executions have been made (0 stands for a loop given no
\* limit), and else the next child in order is scheduled.
Loop_next(l) ==
  /\ inv = "running"
  /\ l \in LoopAgents
  /\ st[l] = "running"
  /\ st[LoopChild(l, loopIter)] = "done"
  /\ loopIter < MaxLoopSteps
  /\ loopIter' = loopIter + 1
  /\ IF actions.escalate
       THEN /\ st' = [st EXCEPT ![l] = "done"]
            /\ loopExit' = "early-exit"
            /\ actions' = [actions EXCEPT !.escalate = FALSE]
       ELSE IF max_iterations(l) # 0 /\ loopIter + 1 >= max_iterations(l)
         THEN /\ st' = [st EXCEPT ![l] = "done"]
              /\ loopExit' = "bound-exhausted"
              /\ actions' = actions
         ELSE /\ st' = [st EXCEPT ![LoopChild(l, loopIter + 1)] = "ready"]
              /\ loopExit' = loopExit
              /\ actions' = actions
  /\ UNCHANGED <<turns, userInput, inv, cur, entered, seqIdx, ctx, err,
                 started, stageStarts, loopRuns, escalations, parCtx0, log>>
  /\ UNCHANGED <<td, dp>>

\* A child execution has raised: the loop ends with the error.
Loop_fail(l) ==
  /\ inv = "running"
  /\ l \in LoopAgents
  /\ st[l] = "running"
  /\ st[LoopChild(l, loopIter)] = "failed"
  /\ st' = [st EXCEPT ![l] = "failed"]
  /\ loopExit' = "error"
  /\ UNCHANGED <<turns, userInput, inv, cur, entered, seqIdx, loopIter, ctx,
                 actions, err, started, stageStarts, loopRuns, escalations,
                 parCtx0, log>>
  /\ UNCHANGED <<td, dp>>

\* ------------------------------------------------- the executor, continued
\* The name -> agent registry built when the graph is constructed.
Registry == Agents

\* The top-level agent has completed and left a transfer: the executor looks
\* the target up and starts it afresh, on the same Context, with the Signal
\* cleared.  An unknown target fails the invocation.
Executor_transfer ==
  /\ inv = "running"
  /\ st[cur] = "done"
  /\ actions.transfer_to_agent # "none"
  /\ LET target == actions.transfer_to_agent IN
       IF target \in Registry
         THEN /\ cur' = target
              /\ entered' = "transfer"
              /\ st' = [t \in Agents |->
                          IF t = target THEN "ready"
                          ELSE IF t \in Subtree(target) THEN "idle" ELSE st[t]]
              /\ actions' = NoActions
              /\ UNCHANGED <<inv, err>>
         ELSE /\ inv' = "failed"
              /\ err' = [kind |-> "UnknownTransferTargetError", task |-> cur]
              /\ UNCHANGED <<cur, entered, st, actions>>
  /\ UNCHANGED <<turns, userInput, seqIdx, loopIter, loopExit, ctx, started,
                 stageStarts, loopRuns, escalations, parCtx0, log>>
  /\ UNCHANGED <<td, dp>>

\* The top-level agent has completed with no transfer: the invocation ends
\* and the next user turn is awaited.
Executor_end ==
  /\ inv = "running"
  /\ st[cur] = "done"
  /\ actions.transfer_to_agent = "none"
  /\ inv' = "completed"
  /\ UNCHANGED <<turns, userInput, cur, entered, st, seqIdx, loopIter,
                 loopExit, ctx, actions, err, started, stageStarts, loopRuns,
                 escalations, parCtx0, log>>
  /\ UNCHANGED <<td, dp>>

\* The top-level agent has raised: the invocation fails with its error.
Executor_fail ==
  /\ inv = "running"
  /\ st[cur] = "failed"
  /\ inv' = "failed"
  /\ UNCHANGED <<turns, userInput, cur, entered, st, seqIdx, loopIter,
                 loopExit, ctx, actions, err, started, stageStarts, loopRuns,
                 escalations, parCtx0, log>>
  /\ UNCHANGED <<td, dp>>

\* ------------------------------------------------------- the specification
\* One invocation whose designated root is any one LlmAgent, run against a
\* Context pre-seeded with any set of keys: the setting in which a template
\* can meet a Context that lacks a key it references.
LeafInit ==
  /\ turns = 1
  /\ userInput \in {"greeting", "topic"}
  /\ inv = "running"
  /\ cur \in LlmAgents
  /\ entered = "user"
  /\ st = [t \in Agents |-> IF t = cur THEN "ready" ELSE "idle"]
  /\ seqIdx = 0
  /\ loopIter = 0
  /\ loopExit = "none"
  /\ \E seeded \in SUBSET Keys :
       ctx = [k \in Keys |-> IF k \in seeded THEN [by |-> "seed", n |-> 0]
                                              ELSE Absent]
  /\ actions = NoActions
  /\ err = NoError
  /\ started = << >>
  /\ stageStarts = << >>
  /\ loopRuns = << >>
  /\ escalations = {}
  /\ parCtx0 = EmptyContext
  /\ log = << >>
  /\ td = TestIdle
  /\ dp = DeployIdle

\* The names a transfer request may carry: the registered agents and two
\* names that no agent bears.
TransferNames == Agents \cup {"DebateGreeter", "DebateWorkflow"}

\* One invocation at the point where the greeter, given a topic, has returned
\* leaving a transfer request that carries any of TransferNames: the setting
\* in which the executor's lookup can miss.
TransferInit ==
  /\ turns = 1
  /\ userInput = "topic"
  /\ inv = "running"
  /\ cur = root_agent
  /\ entered = "user"
  /\ st = [t \in Agents |-> IF t = root_agent THEN "done" ELSE "idle"]
  /\ seqIdx = 0
  /\ loopIter = 0
  /\ loopExit = "none"
  /\ ctx = [EmptyContext EXCEPT ![output_key(root_agent)] =
                                  [by |-> root_agent, n |-> 1]]
  /\ \E target \in TransferNames :
       actions = [escalate |-> FALSE, transfer_to_agent |-> target]
  /\ err = NoError
  /\ started = <<root_agent>>
  /\ stageStarts = << >>
  /\ loopRuns = << >>
  /\ escalations = {}
  /\ parCtx0 = EmptyContext
  /\ log = <<[agent |-> root_agent, key |-> output_key(root_agent),
              value |-> [by |-> root_agent, n |-> 1], calls |-> {}]>>
  /\ td = TestIdle
  /\ dp = DeployIdle

EngineNext ==
  \/ \E a \in LlmAgents : LlmAgent_start(a)
  \/ \E a \in LlmAgents : LlmAgent_return(a)
  \/ \E a \in LlmAgents : LlmAgent_raise(a)
  \/ \E s \in SequentialAgents : Sequential_start(s)
  \/ \E s \in SequentialAgents : Sequential_next(s)
  \/ \E s \in SequentialAgents : Sequential_fail(s)
  \/ \E p \in ParallelAgents : Parallel_start(p)
  \/ \E p \in ParallelAgents : Parallel_join(p)
  \/ \E l \in LoopAgents : Loop_start(l)
  \/ \E l \in LoopAgents : Loop_next(l)
  \/ \E l \in LoopAgents : Loop_fail(l)
  \/ Executor_transfer
  \/ Executor_end
  \/ Executor_fail

Next ==
  \/ \E input \in {"greeting", "topic"}, seed \in BOOLEAN : UserTurn(input, seed)
  \/ EngineNext

Spec == Init /\ [][Next]_vars

\* The engine keeps stepping and every model call eventually returns or
\* raises; the user is under no obligation to send another turn.
FairSpec == Spec /\ WF_vars(EngineNext)

LeafSpec == LeafInit /\ [][EngineNext]_vars

TransferSpec == TransferInit /\ [][EngineNext]_vars

\* -------------------------------------------- the engine's variables at rest
engineVars ==
  <<turns, userInput, inv, cur, entered, st, seqIdx, loopIter, loopExit, ctx,
    actions, err, started, stageStarts, loopRuns, escalations, parCtx0, log>>

\* No invocation of the agent graph in this process: the deployment scripts
\* talk to a remote agent and run no agent themselves.
EngineAtRest ==
  /\ turns = 0
  /\ userInput = "none"
  /\ inv = "idle"
  /\ cur = "none"
  /\ entered = "user"
  /\ st = [t \in Agents |-> "idle"]
  /\ seqIdx = 0
  /\ loopIter = 0
  /\ loopExit = "none"
  /\ ctx = EmptyContext
  /\ actions = NoActions
  /\ err = NoError
  /\ started = << >>
  /\ stageStarts = << >>
  /\ loopRuns = << >>
  /\ escalations = {}
  /\ parCtx0 = EmptyContext
  /\ log = << >>

\* ------------------------------------------ values of flags and environment
\* Python's None, as a value of its own.
None == "<None>"

\* What a string flag can hold (unset, empty, a value) and what os.getenv
\* can return (unset, empty, a value).
FlagValues == {None, "", "flag"}
EnvValues == {None, "", "env"}

\* Python truthiness of an optional string: `if x`.
Truthy(v) == v \notin {None, ""}

Settings == {"project_id", "location", "bucket"}

\* ------------------------------------------ deployment/test_deployment.py
\* test_deployment.py:124-143.  The flag-or-environment value is computed
\* and then overwritten by the environment value.
test_resolve(flag, envv) ==
  LET first == IF Truthy(flag) THEN flag ELSE envv
      second == envv
  IN  second

\* The ids the remote service may give a new session.
SessionIds == {"s1", "s2"}

\* What the user may type at the prompt.
UserInputs == {"hello", "a topic", "quit"}

\* main is entered with the flags parsed (resource_id and user_id are
\* required flags) and the environment loaded.
TestDeploymentInit ==
  /\ EngineAtRest
  /\ dp = DeployIdle
  /\ \E f \in [Settings -> FlagValues], e \in [Settings -> EnvValues] :
       td = [pc |-> "resolve", FLAGS |-> f, env |-> e,
             project_id |-> None, location |-> None, bucket |-> None,
             init |-> << >>, session |-> None, sessions |-> {},
             user_input |-> None, queries |-> << >>, deleted |-> << >>]

\* test_deployment.py:124-143
Test_resolve ==
  /\ td.pc = "resolve"
  /\ td' = [td EXCEPT
              !.project_id = test_resolve(td.FLAGS["project_id"], td.env["project_id"]),
              !.location = test_resolve(td.FLAGS["location"], td.env["location"]),
              !.bucket = test_resolve(td.FLAGS["bucket"], td.env["bucket"]),
              !.pc = "validate"]
  /\ UNCHANGED <<engineVars, dp>>

\* test_deployment.py:147-157
Test_validate ==
  /\ td.pc = "validate"
  /\ td' = [td EXCEPT !.pc =
              IF ~Truthy(td.project_id) \/ ~Truthy(td.location) \/ ~Truthy(td.bucket)
                THEN "returned" ELSE "init"]
  /\ UNCHANGED <<engineVars, dp>>

\* test_deployment.py:161-165
Test_init ==
  /\ td.pc = "init"
  /\ td' = [td EXCEPT !.init = Append(@, [project |-> td.project_id,
                                           location |-> td.location,
                                           staging_bucket |-> <<"gs://", td.bucket>>]),
                      !.pc = "get"]
  /\ UNCHANGED <<engineVars, dp>>

\* test_deployment.py:169
Test_get ==
  /\ td.pc = "get"
  /\ td' = [td EXCEPT !.pc = "create_session"]
  /\ UNCHANGED <<engineVars, dp>>

\* test_deployment.py:175
Test_create_session ==
  /\ td.pc = "create_session"
  /\ \E id \in SessionIds :
       td' = [td EXCEPT !.session = id, !.sessions = @ \cup {id}, !.pc = "input"]
  /\ UNCHANGED <<engineVars, dp>>

\* test_deployment.py:184-188
Test_input(user_input) ==
  /\ td.pc = "input"
  /\ user_input # "quit" => Len(td.queries) < MaxQueries
  /\ td' = [td EXCEPT !.user_input = user_input,
                      !.pc = IF user_input = "quit" THEN "delete" ELSE "query"]
  /\ UNCHANGED <<engineVars, dp>>

\* stream_query with another argument passed as the session id.
Test_stream_query_by_user ==
  /\ td.pc = "query"
  /\ td' = [td EXCEPT !.queries = Append(@, [session_id |-> "user_id",
                                             message |-> td.user_input,
                                             live |-> FALSE]),
                      !.pc = "input"]
  /\ UNCHANGED <<engineVars, dp>>

\* test_deployment.py:192-212
Test_stream_query ==
  /\ td.pc = "query"
  /\ td' = [td EXCEPT !.queries = Append(@, [session_id |-> td.session,
                                             message |-> td.user_input,
                                             live |-> td.session \in td.sessions]),
                      !.pc = "input"]
  /\ UNCHANGED <<engineVars, dp>>

\* test_deployment.py:216
Test_delete_session ==
  /\ td.pc = "delete"
  /\ td' = [td EXCEPT !.deleted = Append(@, td.session),
                      !.sessions = @ \ {td.session},
                      !.pc = "done"]
  /\ UNCHANGED <<engineVars, dp>>

\* A call to the remote service, or input(), raises: nothing catches it and
\* main ends there.
Test_raise ==
  /\ td.pc \in {"get", "create_session", "input", "query", "delete"}
  /\ td' = [td EXCEPT !.pc = "raised"]
  /\ UNCHANGED <<engineVars, dp>>

TestDeploymentNext ==
  \/ Test_resolve
  \/ Test_validate
  \/ Test_init
  \/ Test_get
  \/ Test_create_session
  \/ \E user_input \in UserInputs : Test_input(user_input)
  \/ Test_stream_query
  \/ Test_delete_session
  \/ Test_raise

TestDeploymentSpec == TestDeploymentInit /\ [][TestDeploymentNext]_vars

\* ---------------------------------------------------- deployment/deploy.py
\* deploy.py:256-270
deploy_resolve(flag, envv) == IF Truthy(flag) THEN flag ELSE envv

\* The validation with the test of the bucket left out.
deploy_missing_no_bucket_check(project_id, location, bucket) ==
  IF ~Truthy(project_id) THEN TRUE
  ELSE IF ~Truthy(location) THEN TRUE
  ELSE FALSE

\* deploy.py:280-290, whether main returns for want of a setting
deploy_missing(project_id, location, bucket) ==
  IF ~Truthy(project_id) THEN TRUE
  ELSE IF ~Truthy(location) THEN TRUE
  ELSE IF ~Truthy(bucket) THEN TRUE
  ELSE FALSE

\* The dispatch with the test of resource_id left out.
deploy_command_delete_unchecked(F) ==
  IF F.list THEN "list_agents"
  ELSE IF F.create THEN "create"
  ELSE IF F.delete THEN "delete"
  ELSE "unknown"

\* deploy.py:302-316, the branch main takes
deploy_command(F) ==
  IF F.list THEN "list_agents"
  ELSE IF F.create THEN "create"
  ELSE IF F.delete
    THEN IF ~Truthy(F.resource_id) THEN "no_resource_id" ELSE "delete"
  ELSE "unknown"

ResourceIds == {None, "", "rid"}

\* main is entered with the flags parsed and the environment loaded; absl
\* refuses a command line with both --create and --delete (deploy.py:100).
DeployInit ==
  /\ EngineAtRest
  /\ td = TestIdle
  /\ \E p \in FlagValues, l \in FlagValues, b \in FlagValues,
        rid \in ResourceIds, li \in BOOLEAN, cr \in BOOLEAN, de \in BOOLEAN,
        e \in [Settings -> EnvValues] :
       /\ ~(cr /\ de)
       /\ dp = [pc |-> "resolve",
                FLAGS |-> [project_id |-> p, location |-> l, bucket |-> b,
                           resource_id |-> rid,
                           list |-> li, create |-> cr, delete |-> de],
                env |-> e,
                project_id |-> None, location |-> None, bucket |-> None,
                init |-> << >>, ops |-> << >>]

\* deploy.py:256-276
Deploy_resolve ==
  /\ dp.pc = "resolve"
  /\ dp' = [dp EXCEPT
              !.project_id = deploy_resolve(dp.FLAGS.project_id, dp.env["project_id"]),
              !.location = deploy_resolve(dp.FLAGS.location, dp.env["location"]),
              !.bucket = deploy_resolve(dp.FLAGS.bucket, dp.env["bucket"]),
              !.pc = "validate"]
  /\ UNCHANGED <<engineVars, td>>

\* deploy.py:280-290
Deploy_validate ==
  /\ dp.pc = "validate"
  /\ dp' = [dp EXCEPT !.pc =
              IF deploy_missing(dp.project_id, dp.location, dp.bucket)
                THEN "returned" ELSE "init"]
  /\ UNCHANGED <<engineVars, td>>

\* deploy.py:294-298
Deploy_init ==
  /\ dp.pc = "init"
  /\ dp' = [dp EXCEPT !.init = Append(@, [project |-> dp.project_id,
                                           location |-> dp.location,
                                           staging_bucket |-> <<"gs://", dp.bucket>>]),
                      !.pc = "dispatch"]
  /\ UNCHANGED <<engineVars, td>>

\* deploy.py:302-316
Deploy_dispatch ==
  /\ dp.pc = "dispatch"
  /\ dp' = [dp EXCEPT !.pc =
              CASE deploy_command(dp.FLAGS) = "list_agents" -> "list_agents"
                [] deploy_command(dp.FLAGS) = "create" -> "create"
                [] deploy_command(dp.FLAGS) = "delete" -> "delete_get"
                [] deploy_command(dp.FLAGS) = "no_resource_id" -> "returned"
                [] OTHER -> "done"]
  /\ UNCHANGED <<engineVars, td>>

\* deploy.py:189-221
Deploy_list_agents ==
  /\ dp.pc = "list_agents"
  /\ dp' = [dp EXCEPT !.ops = Append(@, [op |-> "list", resource_id |-> None]),
                      !.pc = "done"]
  /\ UNCHANGED <<engineVars, td>>

\* deploy.py:104-160
Deploy_create ==
  /\ dp.pc = "create"
  /\ dp' = [dp EXCEPT !.ops = Append(@, [op |-> "create", resource_id |-> None]),
                      !.pc = "done"]
  /\ UNCHANGED <<engineVars, td>>

\* deploy.py:181, delete looks the agent up
Deploy_delete_get ==
  /\ dp.pc = "delete_get"
  /\ dp' = [dp EXCEPT !.pc = "delete_remote"]
  /\ UNCHANGED <<engineVars, td>>

\* deploy.py:184-186
Deploy_delete ==
  /\ dp.pc = "delete_remote"
  /\ dp' = [dp EXCEPT !.ops = Append(@, [op |-> "delete",
                                         resource_id |-> dp.FLAGS.resource_id]),
                      !.pc = "done"]
  /\ UNCHANGED <<engineVars, td>>

\* A call to the remote service raises: nothing catches it and main ends.
Deploy_raise ==
  /\ dp.pc \in {"list_agents", "create", "delete_get", "delete_remote"}
  /\ dp' = [dp EXCEPT !.pc = "raised"]
  /\ UNCHANGED <<engineVars, td>>

DeployNext ==
  \/ Deploy_resolve
  \/ Deploy_validate
  \/ Deploy_init
  \/ Deploy_dispatch
  \/ Deploy_list_agents
  \/ Deploy_create
  \/ Deploy_delete_get
  \/ Deploy_delete
  \/ Deploy_raise

DeploySpec == DeployInit /\ [][DeployNext]_vars

\* ----------------------------------------------------------------- claims
Loop == "IterativeDebateLoop"
LoopTerminated == loopExit # "none"
IsDebater(a) == a \in {"ProponentDebater", "OpponentDebater"}

\* C1: the loop performs at most max_iterations (8) child executions, and
\* execution number i (from 0) runs child i mod k of the two children in
\* their fixed order, so the first execution is always ProponentDebater.
C1_LoopRoundRobin ==
  /\ Len(loopRuns) <= 8
  /\ \A i \in 1..Len(loopRuns) :
       loopRuns[i] = <<"ProponentDebater", "OpponentDebater">>[((i - 1) % 2) + 1]
  /\ loopRuns = SelectSeq(started, IsDebater)

C1_Witness ==
  /\ Len(loopRuns) = 8
  /\ loopExit = "bound-exhausted"

\* C2: one iteration is one child execution: with no escalation and no
\* failure the loop ends after exactly 8 child executions, 4 by
\* ProponentDebater and 4 by OpponentDebater, and no ninth is made.
C2_EightExecutions ==
  /\ (st[Loop] = "done" /\ escalations = {}) =>
       /\ loopExit = "bound-exhausted"
       /\ Len(loopRuns) = 8
       /\ Count("ProponentDebater", loopRuns) = 4
       /\ Count("OpponentDebater", loopRuns) = 4
       /\ \A c \in {"ProponentDebater", "OpponentDebater"} : st[c] = "done"
  /\ (st[Loop] = "running" /\ escalations = {}) => loopIter < 8
  /\ loopExit = "bound-exhausted" => escalations = {}

C2_Witness ==
  /\ st[Loop] = "done"
  /\ escalations = {}
  /\ st["DebateStrategicAnalyst"] = "running"

\* C3: escalate is checked after each child execution: once a child has
\* returned having called end_debate, no further child of the loop is
\* executed, the loop's next step ends it as an early exit, and the flag is
\* false once the loop has ended.
C3_EscalateEndsLoop ==
  escalations # {} =>
    /\ escalations = {Len(loopRuns)}
    /\ \A c \in {"ProponentDebater", "OpponentDebater"} :
         st[c] \notin {"ready", "running"}
    /\ st[Loop] = "running" => actions.escalate
    /\ st[Loop] # "running" =>
         /\ st[Loop] = "done"
         /\ loopExit = "early-exit"
         /\ ~actions.escalate

C3_Witness ==
  /\ escalations = {3}
  /\ loopExit = "early-exit"
  /\ st["DebateStrategicAnalyst"] = "done"

\* C4: bound 8, children (A, B) = (ProponentDebater, OpponentDebater): when A
\* calls end_debate in its 3rd execution, the loop ends with exactly 5 child
\* executions, the last one by A, as an early exit.
C4_EscalateOnThirdTurn ==
  (/\ LoopTerminated
   /\ \E i \in escalations :
        /\ loopRuns[i] = "ProponentDebater"
        /\ Count("ProponentDebater", SubSeq(loopRuns, 1, i)) = 3) =>
    /\ Len(loopRuns) = 5
    /\ loopRuns[5] = "ProponentDebater"
    /\ loopExit = "early-exit"
    /\ st[Loop] = "done"

C4_Witness ==
  /\ loopExit = "early-exit"
  /\ escalations = {5}
  /\ Count("ProponentDebater", loopRuns) = 3

\* C5: once the loop has ended, Signal.escalate is false in every later
\* state of the invocation: the loop consumed the flag and no agent that runs
\* after the loop can set it.
C5_EscalateStaysConsumed == LoopTerminated => ~actions.escalate

C5_Witness ==
  /\ loopExit = "early-exit"
  /\ st["DebateSummarizerAgent"] = "done"
  /\ cur = "DebateTeamGreeter"

\* C6: every run of the loop reaches Terminated, given that every child
\* execution returns or raises; when 8 child executions have been made with
\* no escalation the loop ends as a success (bound-exhausted), not as an
\* error, and the workflow goes on to start DebateStrategicAnalyst.
C6_LoopTerminates ==
  /\ (st[Loop] = "running") ~> LoopTerminated
  /\ [](loopExit = "bound-exhausted" =>
          /\ st[Loop] = "done"
          /\ err.task \notin {Loop, "ProponentDebater", "OpponentDebater"}
          /\ st["AIDebateWorkflow"] = "failed" =>
               err.task \in {"DebateStrategicAnalyst", "DebateSummarizerAgent"})
  /\ [](Len(loopRuns) = 8 /\ escalations = {} /\ LoopTerminated /\ loopExit # "error"
          => loopExit = "bound-exhausted")
  /\ (loopExit = "bound-exhausted") ~>
       (Len(stageStarts) >= 4 /\ stageStarts[4] = "DebateStrategicAnalyst")

C6_Witness ==
  /\ loopExit = "bound-exhausted"
  /\ st["DebateStrategicAnalyst"] = "running"
  /\ err = NoError

\* The workflow's stages in the order agent.py lists them.
StageOrder ==
  <<"RoleAssignmentAgent", "ParallelStanceResearcher", "IterativeDebateLoop",
    "DebateStrategicAnalyst", "DebateSummarizerAgent">>

\* What a completed stage has left in the Context.
StageOutputPresent(stage) ==
  CASE stage = "RoleAssignmentAgent" ->
         ctx["role_assignments"] = [by |-> "RoleAssignmentAgent", n |-> 1]
    [] stage = "ParallelStanceResearcher" ->
         /\ ctx["proponent_research_findings"] = [by |-> "ProponentResearcher", n |-> 1]
         /\ ctx["opponent_research_findings"] = [by |-> "OpponentResearcher", n |-> 1]
    [] stage = "IterativeDebateLoop" ->
         /\ Len(loopRuns) >= 1
         /\ ctx["current_round"].by = loopRuns[Len(loopRuns)]
    [] stage = "DebateStrategicAnalyst" ->
         ctx["debate_analysis"] = [by |-> "DebateStrategicAnalyst", n |-> 1]
    [] OTHER -> TRUE

\* C7: the workflow starts its stages in the fixed order RoleAssignmentAgent,
\* ParallelStanceResearcher, IterativeDebateLoop, DebateStrategicAnalyst,
\* DebateSummarizerAgent; a stage is started only when every stage before it
\* has completed, and the Context then holds every predecessor's output.
C7_SequentialOrder ==
  /\ Len(stageStarts) <= 5
  /\ stageStarts = SubSeq(StageOrder, 1, Len(stageStarts))
  /\ \A i \in 1..(Len(stageStarts) - 1) :
       /\ st[stageStarts[i]] = "done"
       /\ StageOutputPresent(stageStarts[i])

C7_Witness ==
  /\ Len(stageStarts) = 5
  /\ st["DebateSummarizerAgent"] = "running"

AfterResearch ==
  {"ProponentDebater", "OpponentDebater", "DebateStrategicAnalyst",
   "DebateSummarizerAgent"}

\* C8: the parallel stage completes only when both researchers have
\* completed: whatever the interleaving, no debater, and no later stage, is
\* started before ProponentResearcher and OpponentResearcher are both done.
C8_ParallelBarrier ==
  (\/ \E i \in 1..Len(started) : started[i] \in AfterResearch
   \/ \E i \in 1..Len(stageStarts) :
        stageStarts[i] \in {"IterativeDebateLoop", "DebateStrategicAnalyst",
                            "DebateSummarizerAgent"}
   \/ st["ParallelStanceResearcher"] = "done") =>
    /\ st["ProponentResearcher"] = "done"
    /\ st["OpponentResearcher"] = "done"

\* The opponent's researcher was invoked first and a debater is running.
C8_Witness ==
  /\ Len(started) >= 5
  /\ started[3] = "OpponentResearcher"
  /\ started[4] = "ProponentResearcher"
  /\ st["ProponentDebater"] = "running"

\* C9: every key an instruction references is in the Context when the agent
\* is invoked, also after an early exit of the loop: no agent fails with
\* MissingKeyError, and the only failure of a leaf is a CapabilityError.
C9_KeysPresentWhenRead ==
  /\ err.kind # "MissingKeyError"
  /\ \A a \in LlmAgents : st[a] = "failed" => err.kind = "CapabilityError"
  /\ \A a \in {"ProponentResearcher", "OpponentResearcher"} :
       st[a] \in {"running", "done"} => ctx["role_assignments"] # Absent
  /\ \A a \in {"ProponentDebater", "OpponentDebater"} :
       st[a] \in {"running", "done"} =>
         {"role_assignments", "proponent_research_findings",
          "opponent_research_findings"} \subseteq Present(ctx)
  /\ st["DebateStrategicAnalyst"] \in {"running", "done"} =>
       {"role_assignments", "proponent_research_findings",
        "opponent_research_findings", "current_round"} \subseteq Present(ctx)
  /\ st["DebateSummarizerAgent"] \in {"running", "done"} =>
       {"role_assignments", "debate_analysis"} \subseteq Present(ctx)

\* The loop ended early after its first child execution and the analyst,
\* which reads current_round, has been invoked.
C9_Witness ==
  /\ escalations = {1}
  /\ loopExit = "early-exit"
  /\ st["DebateStrategicAnalyst"] = "running"

\* C10: whichever researcher runs and finishes first, when the parallel stage
\* has completed the Context is the Context the stage started on with
\* proponent_research_findings set to ProponentResearcher's text and
\* opponent_research_findings set to OpponentResearcher's text, and both
\* keys keep those values for the rest of the invocation.
C10_ParallelOutcome ==
  st["ParallelStanceResearcher"] = "done" =>
    /\ ctx["proponent_research_findings"] = [by |-> "ProponentResearcher", n |-> 1]
    /\ ctx["opponent_research_findings"] = [by |-> "OpponentResearcher", n |-> 1]
    /\ seqIdx = 2 =>
         ctx = [parCtx0 EXCEPT
                  !["proponent_research_findings"] =
                     [by |-> "ProponentResearcher", n |-> 1],
                  !["opponent_research_findings"] =
                     [by |-> "OpponentResearcher", n |-> 1]]

\* The stage has just completed in a run where the opponent's researcher was
\* invoked first.
C10_Witness ==
  /\ st["ParallelStanceResearcher"] = "done"
  /\ seqIdx = 2
  /\ started[3] = "OpponentResearcher"

Researchers == {"ProponentResearcher", "OpponentResearcher"}

\* C11: the two siblings of the parallel stage never write the same Context
\* key: every write by ProponentResearcher is to proponent_research_findings,
\* every write by OpponentResearcher is to opponent_research_findings, and no
\* key is written by both.
C11_DisjointSiblingWrites ==
  /\ \A i \in 1..Len(log) :
       /\ log[i].agent = "ProponentResearcher" =>
            log[i].key = "proponent_research_findings"
       /\ log[i].agent = "OpponentResearcher" =>
            log[i].key = "opponent_research_findings"
  /\ \A i, j \in 1..Len(log) :
       (/\ log[i].agent \in Researchers
        /\ log[j].agent \in Researchers
        /\ log[i].agent # log[j].agent) => log[i].key # log[j].key

\* Both siblings have written and the stage has not yet joined.
C11_Witness ==
  /\ st["ParallelStanceResearcher"] = "running"
  /\ \E i, j \in 1..Len(log) :
       /\ log[i].agent = "OpponentResearcher"
       /\ log[j].agent = "ProponentResearcher"
       /\ i < j

\* The top-level agent has completed and has left a transfer request.
TransferPending ==
  /\ inv = "running"
  /\ cur \in Agents
  /\ st[cur] = "done"
  /\ actions.transfer_to_agent # "none"

\* C12: when the top-level agent ends with a transfer naming a registered
\* agent, the executor's next step starts that agent from its beginning, with
\* the Context unchanged and the Signal cleared; the greeter's transfer names
\* AIDebateWorkflow and the workflow's names DebateTeamGreeter, and nothing
\* but this step changes the top-level agent during an invocation.
C12_TransferResolution ==
  [][ /\ (TransferPending /\ actions.transfer_to_agent \in Agents) =>
           /\ cur' = actions.transfer_to_agent
           /\ st'[cur'] = "ready"
           /\ \A t \in Subtree(cur') \ {cur'} : st'[t] = "idle"
           /\ ctx' = ctx
           /\ actions' = NoActions
           /\ started' = started
      /\ (TransferPending /\ cur = "DebateTeamGreeter") =>
           cur' = "AIDebateWorkflow"
      /\ (TransferPending /\ cur = "AIDebateWorkflow") =>
           cur' = "DebateTeamGreeter"
      /\ (inv = "running" /\ cur' # cur) => TransferPending
    ]_vars

\* The workflow has just been entered by the greeter's transfer.
C12_Witness ==
  /\ cur = "AIDebateWorkflow"
  /\ entered = "transfer"
  /\ st["AIDebateWorkflow"] = "ready"
  /\ actions = NoActions
  /\ ctx["debate_topic"] = [by |-> "DebateTeamGreeter", n |-> 1]

\* C13: the greeter transfers to AIDebateWorkflow, whose last leaf transfers
\* back to the name DebateTeamGreeter: execution resumes at DebateTeamGreeter,
\* and the Context then holds debate_topic written by the greeter and
\* final_debate_summary written by the workflow.
C13_TransferRoundTrip ==
  /\ st["DebateSummarizerAgent"] = "done" =>
       \/ /\ cur = "AIDebateWorkflow"
          /\ actions.transfer_to_agent = "DebateTeamGreeter"
       \/ /\ cur = "DebateTeamGreeter"
          /\ entered = "transfer"
  /\ (cur = "DebateTeamGreeter" /\ entered = "transfer") =>
       /\ st["DebateSummarizerAgent"] = "done"
       /\ ctx["debate_topic"].by = "DebateTeamGreeter"
       /\ ctx["final_debate_summary"] = [by |-> "DebateSummarizerAgent", n |-> 1]
       /\ log[1].agent = "DebateTeamGreeter"
       /\ log[1].key = "debate_topic"
       /\ "start_debate_workflow" \in log[1].calls

\* The greeter is running again after the workflow's visit.
C13_Witness ==
  /\ cur = "DebateTeamGreeter"
  /\ entered = "transfer"
  /\ st["DebateTeamGreeter"] = "running"
  /\ Count("DebateTeamGreeter", started) = 2

\* The agents of the workflow: the workflow itself and everything under it.
WorkflowAgents ==
  {"AIDebateWorkflow", "RoleAssignmentAgent", "ParallelStanceResearcher",
   "ProponentResearcher", "OpponentResearcher", "IterativeDebateLoop",
   "ProponentDebater", "OpponentDebater", "DebateStrategicAnalyst",
   "DebateSummarizerAgent"}

\* C14: no agent of the workflow runs unless the greeter, given a topic by
\* the user, has returned having called start_debate_workflow in this
\* invocation; in a greeting turn no transfer is ever set and no agent of the
\* workflow runs.
C14_WorkflowOnlyByTransfer ==
  /\ (\/ \E t \in WorkflowAgents : st[t] # "idle"
      \/ \E i \in 1..Len(started) : started[i] \in WorkflowAgents
      \/ stageStarts # << >>) =>
       /\ userInput = "topic"
       /\ started[1] = "DebateTeamGreeter"
       /\ log[1].agent = "DebateTeamGreeter"
       /\ log[1].calls = {"start_debate_workflow"}
  /\ userInput = "greeting" =>
       /\ actions.transfer_to_agent = "none"
       /\ \A t \in WorkflowAgents : st[t] = "idle"
       /\ \A i \in 1..Len(started) : started[i] = "DebateTeamGreeter"
       /\ \A i \in 1..Len(log) : log[i].calls = {}

\* The second user turn has entered the workflow.
C14_Witness ==
  /\ turns = 2
  /\ userInput = "topic"
  /\ st["AIDebateWorkflow"] = "running"
  /\ st["RoleAssignmentAgent"] = "ready"

\* C15: once the workflow is entered, unless a task fails, its five stages
\* complete and control returns to DebateTeamGreeter: the summarizer has
\* written final_debate_summary and called return_to_greeter; the greeter
\* then runs to the end of the invocation, after which a new topic can be
\* sent (while the model's turn bound allows a further turn).
C15_WorkflowReturnsToGreeter ==
  /\ (cur = "AIDebateWorkflow") ~>
       (inv = "failed" \/ (cur = "DebateTeamGreeter" /\ entered = "transfer"))
  /\ [](st["DebateSummarizerAgent"] = "done" =>
          /\ ctx["final_debate_summary"] = [by |-> "DebateSummarizerAgent", n |-> 1]
          /\ \E i \in 1..Len(log) :
               /\ log[i].agent = "DebateSummarizerAgent"
               /\ log[i].key = "final_debate_summary"
               /\ log[i].calls = {"return_to_greeter"})
  /\ []((cur = "DebateTeamGreeter" /\ entered = "transfer") =>
          /\ stageStarts = StageOrder
          /\ \A i \in 1..5 : st[StageOrder[i]] = "done")
  /\ (cur = "DebateTeamGreeter" /\ entered = "transfer") ~>
       (inv = "completed" \/ inv = "failed")
  /\ []((inv = "completed" /\ turns < MaxTurns) =>
          ENABLED UserTurn("topic", FALSE))

\* The invocation has ended at the greeter after a whole debate.
C15_Witness ==
  /\ inv = "completed"
  /\ cur = "DebateTeamGreeter"
  /\ entered = "transfer"
  /\ st["DebateSummarizerAgent"] = "done"
  /\ turns < MaxTurns

\* C16: Context[debate_topic] has been written by DebateTeamGreeter before
\* RoleAssignmentAgent, the first stage of the workflow, starts.
C16_TopicBeforeWorkflow ==
  (\/ st["AIDebateWorkflow"] # "idle"
   \/ \E i \in 1..Len(started) : started[i] = "RoleAssignmentAgent") =>
    /\ ctx["debate_topic"].by = "DebateTeamGreeter"
    /\ log[1].agent = "DebateTeamGreeter"
    /\ log[1].key = "debate_topic"

\* RoleAssignmentAgent has just been invoked, in a turn with no seeded topic.
C16_Witness ==
  /\ started = <<"DebateTeamGreeter", "RoleAssignmentAgent">>
  /\ st["RoleAssignmentAgent"] = "running"
  /\ ctx["debate_topic"] = [by |-> "DebateTeamGreeter", n |-> 1]

\* The LlmAgents that run inside each stage of the workflow.
StageLeaves(stage) ==
  CASE stage = "ParallelStanceResearcher" -> Researchers
    [] stage = "IterativeDebateLoop" -> {"ProponentDebater", "OpponentDebater"}
    [] OTHER -> {stage}

\* Whether the Context holds, under every key written in this invocation,
\* the value of the latest write to it.
WritesPresent ==
  \A i \in 1..Len(log) :
    /\ ctx[log[i].key] # Absent
    /\ (\A j \in (i + 1)..Len(log) : log[j].key # log[i].key) =>
         ctx[log[i].key] = log[i].value

\* C17: when a child of AIDebateWorkflow raises, the workflow fails with that
\* child's error, the children listed after it are never executed, and every
\* Context write made before the failure is still in the Context.
C17_SequentialAbortsOnError ==
  st["AIDebateWorkflow"] = "failed" =>
    LET k == Len(stageStarts) IN
    /\ k >= 1
    /\ st[StageOrder[k]] = "failed"
    /\ \A j \in 1..(k - 1) : st[StageOrder[j]] = "done"
    /\ \A j \in (k + 1)..5 :
         /\ st[StageOrder[j]] = "idle"
         /\ \A a \in StageLeaves(StageOrder[j]) :
              /\ st[a] = "idle"
              /\ \A i \in 1..Len(started) : started[i] # a
    /\ err.kind = "CapabilityError"
    /\ err.task \in StageLeaves(StageOrder[k])
    /\ inv \in {"running", "failed"}
    /\ inv = "failed" => cur = "AIDebateWorkflow"
    /\ WritesPresent

\* The loop's third child execution raised and the invocation has failed.
C17_Witness ==
  /\ inv = "failed"
  /\ st["AIDebateWorkflow"] = "failed"
  /\ st["IterativeDebateLoop"] = "failed"
  /\ Len(loopRuns) = 3
  /\ Len(log) = 6

ResearchKey(a) ==
  IF a = "ProponentResearcher"
    THEN "proponent_research_findings" ELSE "opponent_research_findings"

\* C19: when one researcher raises CapabilityError and the other returns,
\* whatever their interleaving, the parallel stage ends as a failure carrying
\* that CapabilityError and the other researcher's write is in the Context.
C19_ParallelFailureKeepsWrite ==
  \A a, b \in Researchers :
    (/\ a # b
     /\ st[a] = "failed"
     /\ st[b] = "done"
     /\ st["ParallelStanceResearcher"] # "running") =>
      /\ st["ParallelStanceResearcher"] = "failed"
      /\ err = [kind |-> "CapabilityError", task |-> a]
      /\ ctx[ResearchKey(b)] = [by |-> b, n |-> 1]
      /\ \E i \in 1..Len(log) : log[i].agent = b /\ log[i].key = ResearchKey(b)
      /\ st["IterativeDebateLoop"] = "idle"

\* The opponent's researcher raised, the proponent's returned, and the
\* failure has reached the top of the invocation.
C19_Witness ==
  /\ inv = "failed"
  /\ st["ParallelStanceResearcher"] = "failed"
  /\ st["OpponentResearcher"] = "failed"
  /\ st["ProponentResearcher"] = "done"

\* C20: the parallel stage reports failure only when none of its children
\* is in flight: whenever the stage, or the workflow because of it, has
\* failed, each researcher has returned or raised; while one researcher has
\* raised and the other is still to finish, the stage is still running.
C20_NoDanglingSibling ==
  /\ (\/ st["ParallelStanceResearcher"] = "failed"
      \/ (st["AIDebateWorkflow"] = "failed" /\ seqIdx = 2)) =>
       \A c \in Researchers : st[c] \in {"done", "failed"}
  /\ \A a, b \in Researchers :
       (st[a] = "failed" /\ st[b] \in {"ready", "running"}) =>
         /\ st["ParallelStanceResearcher"] = "running"
         /\ st["AIDebateWorkflow"] = "running"
         /\ inv = "running"

\* Both researchers raised and the stage has failed.
C20_Witness ==
  /\ st["ParallelStanceResearcher"] = "failed"
  /\ st["ProponentResearcher"] = "failed"
  /\ st["OpponentResearcher"] = "failed"

\* Whether the stages listed after stage number k have been left untouched.
LaterStagesNotRun(k) ==
  \A j \in (k + 1)..5 :
    /\ st[StageOrder[j]] = "idle"
    /\ \A b \in StageLeaves(StageOrder[j]) :
         /\ st[b] = "idle"
         /\ \A i \in 1..Len(started) : started[i] # b

\* C21: a failure of an LlmAgent at any depth (the greeter, a stage of the
\* workflow, a researcher under the parallel stage, a debater under the loop)
\* is a CapabilityError that stays recorded, the invocation never completes
\* and eventually ends failed carrying it, and no stage listed after the
\* failed agent's stage is ever run.
C21_NoStageSwallowsError ==
  /\ [](\A a \in LlmAgents : st[a] = "failed" =>
          /\ inv \in {"running", "failed"}
          /\ err.kind = "CapabilityError"
          /\ err.task \in LlmAgents
          /\ st[err.task] = "failed"
          /\ \A k \in 1..5 :
               a \in StageLeaves(StageOrder[k]) => LaterStagesNotRun(k))
  /\ ((\E a \in LlmAgents : st[a] = "failed")
        ~> (inv = "failed" /\ err.kind = "CapabilityError"))

\* A debater, two levels below the workflow, raised in the loop's second
\* execution and the invocation has ended failed.
C21_Witness ==
  /\ inv = "failed"
  /\ err = [kind |-> "CapabilityError", task |-> "OpponentDebater"]
  /\ st["IterativeDebateLoop"] = "failed"
  /\ st["AIDebateWorkflow"] = "failed"

\* C22: in an invocation in which an agent of the workflow has failed,
\* final_debate_summary is absent from the Context and no agent has written
\* it.
C22_NoPartialSummary ==
  (\E a \in WorkflowAgents : st[a] = "failed") =>
    /\ ctx["final_debate_summary"] = Absent
    /\ \A i \in 1..Len(log) : log[i].key # "final_debate_summary"

\* The summarizer itself raised, after the analyst had written its analysis.
C22_Witness ==
  /\ inv = "failed"
  /\ st["DebateSummarizerAgent"] = "failed"
  /\ ctx["debate_analysis"] # Absent
  /\ ctx["final_debate_summary"] = Absent

\* C23: an LlmAgent invoked while a key of its template is absent from the
\* Context (ProponentResearcher without role_assignments, for one) fails
\* with MissingKeyError in that very step: it never reaches the model call,
\* writes no key, calls no tool and never returns.
C23_MissingKeyFailsFast ==
  /\ [][\A a \in LlmAgents :
          (/\ st[a] = "ready"
           /\ st'[a] # "ready"
           /\ \/ instruction_keys(a) \ Present(ctx) # {}
              \/ (a = "ProponentResearcher" /\ ctx["role_assignments"] = Absent)) =>
            /\ st'[a] = "failed"
            /\ err'.kind = "MissingKeyError"
            /\ err = NoError => err'.task = a
            /\ ctx' = ctx
            /\ actions' = actions
            /\ log' = log
       ]_vars
  /\ [](\A a \in LlmAgents :
          err = [kind |-> "MissingKeyError", task |-> a] =>
            /\ st[a] = "failed"
            /\ inv \in {"running", "failed"}
            /\ \A i \in 1..Len(log) : log[i].agent # a)

\* ProponentResearcher, run without role_assignments, has failed the
\* invocation with MissingKeyError.
C23_Witness ==
  /\ inv = "failed"
  /\ err = [kind |-> "MissingKeyError", task |-> "ProponentResearcher"]
  /\ st["ProponentResearcher"] = "failed"
  /\ ctx["role_assignments"] = Absent
  /\ log = << >>

\* C24: when the top-level agent has ended leaving a transfer to a name that
\* none of the agents of agent.py bears, the executor's step fails the
\* invocation with UnknownTransferTargetError: no agent is scheduled or run
\* by it, and the invocation stays failed with that error.
C24_UnknownTransferTarget ==
  /\ [][(/\ TransferPending
         /\ actions.transfer_to_agent \notin WorkflowAgents \cup {"DebateTeamGreeter"}) =>
          /\ inv' = "failed"
          /\ err' = [kind |-> "UnknownTransferTargetError", task |-> cur]
          /\ cur' = cur
          /\ st' = st
          /\ started' = started
          /\ ctx' = ctx
       ]_vars
  /\ [](err.kind = "UnknownTransferTargetError" =>
          /\ inv = "failed"
          /\ \A t \in Agents : st[t] \notin {"ready", "running"}
          /\ started = <<"DebateTeamGreeter">>)

\* The greeter's request named DebateWorkflow, which no agent is called.
C24_Witness ==
  /\ inv = "failed"
  /\ err = [kind |-> "UnknownTransferTargetError", task |-> "DebateTeamGreeter"]
  /\ actions.transfer_to_agent = "DebateWorkflow"

\* C25: every transfer a tool requests names an agent among the sub_agents
\* of the agent that called the tool.
C25_TransferWithinSubAgents ==
  \A i \in 1..Len(log) :
    LET target == ApplyTools(log[i].calls, NoActions).transfer_to_agent
    IN  target # "none" => target \in declared_sub_agents(log[i].agent)

\* The key under which agent.py stores each LlmAgent's text.
AgentKey ==
  {<<"DebateTeamGreeter", "debate_topic">>,
   <<"RoleAssignmentAgent", "role_assignments">>,
   <<"ProponentResearcher", "proponent_research_findings">>,
   <<"OpponentResearcher", "opponent_research_findings">>,
   <<"ProponentDebater", "current_round">>,
   <<"OpponentDebater", "current_round">>,
   <<"DebateStrategicAnalyst", "debate_analysis">>,
   <<"DebateSummarizerAgent", "final_debate_summary">>}

\* C26: in every step within an invocation the set of keys present in the
\* Context does not shrink; a step in which an LlmAgent returns leaves under
\* that agent's key exactly the text just produced and leaves every other
\* key as it was; every other step leaves the Context as it was.
C26_ContextMonotonic ==
  [][turns' = turns =>
       /\ Present(ctx) \subseteq Present(ctx')
       /\ IF Len(log') = Len(log) + 1
            THEN LET e == log'[Len(log')] IN
                   /\ <<e.agent, e.key>> \in AgentKey
                   /\ e.value # Absent
                   /\ ctx'[e.key] = e.value
                   /\ \A k \in Keys \ {e.key} : ctx'[k] = ctx[k]
            ELSE ctx' = ctx
    ]_vars

\* Every key is present and debate_topic holds the text of the greeter's
\* second run, which replaced that of its first.
C26_Witness ==
  /\ Present(ctx) = Keys
  /\ ctx["debate_topic"] = [by |-> "DebateTeamGreeter", n |-> 2]
  /\ \E i \in 1..Len(log) :
       /\ log[i].key = "debate_topic"
       /\ log[i].value = [by |-> "DebateTeamGreeter", n |-> 1]

\* The text of the loop's latest child execution.
LastDebaterText ==
  LET a == loopRuns[Len(loopRuns)] IN [by |-> a, n |-> Count(a, loopRuns)]

\* The text of the loop's child execution before the latest, if any.
PreviousDebaterText ==
  IF Len(loopRuns) = 1 THEN Absent
  ELSE LET b == loopRuns[Len(loopRuns) - 1]
       IN  [by |-> b, n |-> Count(b, SubSeq(loopRuns, 1, Len(loopRuns) - 1))]

Texts(v) == IF v = Absent THEN << >> ELSE <<v>>

IsDebaterReturn(e) == IsDebater(e.agent)

\* The texts of the debater executions of this invocation, in order.
DebaterOutputs ==
  LET runs == SelectSeq(log, IsDebaterReturn)
  IN  [i \in 1..Len(runs) |-> runs[i].value]

\* C28: once DebateStrategicAnalyst has been invoked, the current_round it
\* reads consists of the texts of all debater executions of the loop, in
\* the order of their execution.
C28_CurrentRoundHoldsThread ==
  (\E i \in 1..Len(started) : started[i] = "DebateStrategicAnalyst") =>
    Texts(ctx["current_round"]) = DebaterOutputs

C30_OnlyControlToolsSetSignal ==
  [][/\ \A a \in {"RoleAssignmentAgent", "ProponentResearcher",
                  "OpponentResearcher", "DebateStrategicAnalyst"} :
          (st[a] \in {"ready", "running"} /\ st'[a] # st[a]) => actions' = actions
     /\ (actions'.escalate /\ ~actions.escalate) =>
          \E a \in {"ProponentDebater", "OpponentDebater"} :
            st[a] = "running" /\ st'[a] = "done"
     /\ actions'.transfer_to_agent \notin {"none", actions.transfer_to_agent} =>
          \E a \in {"DebateTeamGreeter", "DebateSummarizerAgent"} :
            st[a] = "running" /\ st'[a] = "done"
    ]_vars

\* The four agents without a control tool have run, a debater has escalated
\* and the summarizer has requested the transfer.
C30_Witness ==
  /\ escalations # {}
  /\ actions = [escalate |-> FALSE, transfer_to_agent |-> "DebateTeamGreeter"]
  /\ st["DebateSummarizerAgent"] = "done"
  /\ \A a \in {"RoleAssignmentAgent", "ProponentResearcher",
               "OpponentResearcher", "DebateStrategicAnalyst"} : st[a] = "done"

\* C31: in test_deployment.py every query carries the id of the session
\* created before the chat loop, and that session exists when the query is
\* sent; the session is deleted only after the user has typed quit, at most
\* once, and exactly once when main ends normally; typing quit leads
\* straight to the deletion; nothing is sent once the session is deleted.
C31_SessionLifecycle ==
  /\ [](td.pc # "idle" =>
          /\ \A i \in 1..Len(td.queries) :
               /\ td.session \in SessionIds
               /\ td.queries[i].session_id = td.session
               /\ td.queries[i].live
               /\ td.queries[i].message # "quit"
          /\ Len(td.deleted) <= 1
          /\ td.deleted # << >> =>
               (td.user_input = "quit" /\ td.deleted = <<td.session>>)
          /\ td.pc = "done" => (td.deleted = <<td.session>> /\ td.sessions = {})
          /\ td.pc = "delete" => td.user_input = "quit")
  /\ [][td.pc # "idle" =>
          /\ (td.pc = "input" /\ td'.user_input = "quit" /\ td'.pc # "raised") =>
               (td'.pc = "delete" /\ td'.queries = td.queries)
          /\ td.pc = "delete" => td'.pc \in {"done", "raised"}
          /\ td.deleted # << >> => td' = td
          /\ Len(td'.queries) > Len(td.queries) => td.session \in td.sessions
       ]_vars

\* Three messages were sent in the session, the user typed quit and the
\* session was deleted.
C31_Witness ==
  /\ td.pc = "done"
  /\ Len(td.queries) = 3
  /\ td.deleted = <<td.session>>
  /\ td.user_input = "quit"

\* C32: in test_deployment.py the project, location and bucket passed to
\* vertexai.init are the flag's value where the flag is provided and the
\* environment variable's value only where it is not.
C32_FlagOverEnvironment ==
  td.pc # "idle" =>
    \A i \in 1..Len(td.init) :
      /\ td.init[i].project =
           IF Truthy(td.FLAGS["project_id"])
             THEN td.FLAGS["project_id"] ELSE td.env["project_id"]
      /\ td.init[i].location =
           IF Truthy(td.FLAGS["location"])
             THEN td.FLAGS["location"] ELSE td.env["location"]
      /\ td.init[i].staging_bucket =
           <<"gs://", IF Truthy(td.FLAGS["bucket"])
                        THEN td.FLAGS["bucket"] ELSE td.env["bucket"]>>

\* C33: when a child execution of IterativeDebateLoop raises, the loop ends
\* with that error at once: the loop's next step is its failure, no other
\* child is scheduled or started, the count of completed executions stays as
\* it was and the bound plays no part (the eighth execution may be the one
\* that raises), and the workflow then fails with the same error.
C33_LoopChildRaises ==
  /\ [](Len(loopRuns) >= 1 =>
          LET n == Len(loopRuns)
              a == loopRuns[n]
          IN  /\ a = IF n % 2 = 1 THEN "ProponentDebater" ELSE "OpponentDebater"
              /\ st[a] = "failed" =>
                   /\ n <= 8
                   /\ st["IterativeDebateLoop"] \in {"running", "failed"}
                   /\ loopExit \in {"none", "error"}
                   /\ loopIter = n - 1
                   /\ err = [kind |-> "CapabilityError", task |-> a]
                   /\ \A b \in {"ProponentDebater", "OpponentDebater"} \ {a} :
                        st[b] \notin {"ready", "running"}
                   /\ st["DebateStrategicAnalyst"] = "idle"
                   /\ st["AIDebateWorkflow"] = "failed" =>
                        st["IterativeDebateLoop"] = "failed"
              /\ loopExit = "error" =>
                   (st[a] = "failed" /\ st["IterativeDebateLoop"] = "failed"))
  /\ [][(/\ Len(loopRuns) >= 1
         /\ st[loopRuns[Len(loopRuns)]] = "failed"
         /\ turns' = turns) =>
          /\ loopRuns' = loopRuns
          /\ started' = started
          /\ loopIter' = loopIter
          /\ st["IterativeDebateLoop"] = "running" =>
               (st'["IterativeDebateLoop"] = "failed" /\ loopExit' = "error")
       ]_vars
  /\ (loopExit = "error"
        ~> (st["AIDebateWorkflow"] = "failed" /\ inv = "failed"
              /\ err.kind = "CapabilityError"))

\* The eighth execution, OpponentDebater's fourth, raised: the loop ended
\* with the error, not as bound-exhausted, and the workflow failed.
C33_Witness ==
  /\ Len(loopRuns) = 8
  /\ st["OpponentDebater"] = "failed"
  /\ loopExit = "error"
  /\ loopIter = 7
  /\ st["AIDebateWorkflow"] = "failed"

\* Whether no agent has failed in this invocation.
NoFailure == \A t \in Agents : st[t] # "failed"

\* C34: a debater's end_debate ends the loop and nothing else: whether the
\* loop ended by escalation (after any execution) or by its bound, while no
\* agent fails the workflow goes on to run DebateStrategicAnalyst and then
\* DebateSummarizerAgent, once each and after every debater execution, and
\* no stage of the workflow is started twice in a visit; when the workflow
\* has ended, each of the five stages has run exactly once, in order.
C34_EscalateEndsLoopOnly ==
  /\ [](/\ \A i, j \in 1..Len(stageStarts) :
             stageStarts[i] = stageStarts[j] => i = j
        /\ Count("DebateStrategicAnalyst", started) <= 1
        /\ Count("DebateSummarizerAgent", started) <= 1
        /\ (loopExit = "early-exit" /\ NoFailure) =>
             /\ st["IterativeDebateLoop"] = "done"
             /\ escalations = {Len(loopRuns)}
             /\ st["AIDebateWorkflow"] = "done" => st["DebateSummarizerAgent"] = "done"
        /\ st["AIDebateWorkflow"] = "done" =>
             /\ stageStarts = StageOrder
             /\ loopExit \in {"early-exit", "bound-exhausted"}
             /\ Count("DebateStrategicAnalyst", started) = 1
             /\ Count("DebateSummarizerAgent", started) = 1
             /\ \E i, j \in 1..Len(started) :
                  /\ started[i] = "DebateStrategicAnalyst"
                  /\ started[j] = "DebateSummarizerAgent"
                  /\ i < j
                  /\ \A k \in 1..Len(started) : IsDebater(started[k]) => k < i)
  /\ (loopExit \in {"early-exit", "bound-exhausted"}
        ~> (\/ st["DebateSummarizerAgent"] = "done" /\ st["DebateStrategicAnalyst"] = "done"
            \/ ~NoFailure))

\* The loop ended by escalation at its first execution, the analyst and the
\* summarizer have run and the workflow has ended.
C34_Witness ==
  /\ loopExit = "early-exit"
  /\ Len(loopRuns) = 1
  /\ st["AIDebateWorkflow"] = "done"
  /\ st["DebateSummarizerAgent"] = "done"
  /\ NoFailure

\* C35: the two transfer targets the tools set, DebateTeamGreeter and
\* AIDebateWorkflow, are each the name of one agent of the graph (no name is
\* borne by two agents), so no invocation fails with
\* UnknownTransferTargetError, and within an invocation the top-level agent
\* changes only from the greeter to the workflow and from the workflow to
\* the greeter.
C35_TransferTargetsKnown ==
  /\ [](/\ Cardinality(Agents) =
             Cardinality(LlmAgents) + Cardinality(SequentialAgents)
               + Cardinality(ParallelAgents) + Cardinality(LoopAgents)
        /\ {"DebateTeamGreeter", "AIDebateWorkflow"} \subseteq Agents
        /\ actions.transfer_to_agent \in {"none", "DebateTeamGreeter", "AIDebateWorkflow"}
        /\ \A i \in 1..Len(log) :
             ApplyTools(log[i].calls, NoActions).transfer_to_agent
               \in {"none", "DebateTeamGreeter", "AIDebateWorkflow"}
        /\ err.kind # "UnknownTransferTargetError"
        /\ cur \in {"none", "DebateTeamGreeter", "AIDebateWorkflow"})
  /\ [][(cur' # cur /\ turns' = turns) =>
          \/ cur = "DebateTeamGreeter" /\ cur' = "AIDebateWorkflow"
          \/ cur = "AIDebateWorkflow" /\ cur' = "DebateTeamGreeter"
       ]_vars

\* Both transitions were taken in one invocation, which then completed.
C35_Witness ==
  /\ inv = "completed"
  /\ cur = "DebateTeamGreeter"
  /\ entered = "transfer"
  /\ st["AIDebateWorkflow"] = "done"

\* The value deploy.py gives a setting: the flag's if provided, else the
\* environment variable's.
FlagOrEnv(x) ==
  IF Truthy(dp.FLAGS[x]) THEN dp.FLAGS[x] ELSE dp.env[x]

\* C36: in deploy.py, when project id, location or bucket resolves to no
\* value (no flag and no environment variable, or empty ones), main returns
\* at the validation: Vertex AI is not initialized and nothing is listed,
\* created or deleted, whichever of --list, --create, --delete is given.
C36_MissingSettingReturns ==
  (dp.pc # "idle" /\ \E x \in Settings : ~Truthy(FlagOrEnv(x))) =>
    /\ dp.init = << >>
    /\ dp.ops = << >>
    /\ dp.pc \in {"resolve", "validate", "returned"}

\* Only the bucket is missing, --create is given, and main has returned.
C36_Witness ==
  /\ dp.pc = "returned"
  /\ dp.FLAGS.create
  /\ Truthy(FlagOrEnv("project_id"))
  /\ Truthy(FlagOrEnv("location"))
  /\ FlagOrEnv("bucket") = None
  /\ dp.init = << >>

\* C37: deploy.py performs at most one of list, create, delete in a run:
\* list if --list is given; else create if --create is given; else delete if
\* --delete is given together with a resource_id, the agent deleted being
\* that one; --create and --delete are never both given; with --delete and
\* no resource_id main returns having deleted nothing.
C37_OneOperation ==
  dp.pc # "idle" =>
    /\ ~(dp.FLAGS.create /\ dp.FLAGS.delete)
    /\ Len(dp.ops) <= 1
    /\ \A i \in 1..Len(dp.ops) :
         /\ dp.ops[i].op = "list" => dp.FLAGS.list
         /\ dp.ops[i].op = "create" => (dp.FLAGS.create /\ ~dp.FLAGS.list)
         /\ dp.ops[i].op = "delete" =>
              /\ dp.FLAGS.delete
              /\ ~dp.FLAGS.list
              /\ ~dp.FLAGS.create
              /\ dp.FLAGS.resource_id = "rid"
              /\ dp.ops[i].resource_id = "rid"
    /\ dp.pc \in {"delete_get", "delete_remote"} => dp.FLAGS.resource_id = "rid"
    /\ dp.pc = "done" =>
         /\ dp.FLAGS.list => dp.ops = <<[op |-> "list", resource_id |-> None]>>
         /\ (~dp.FLAGS.list /\ dp.FLAGS.create) =>
              dp.ops = <<[op |-> "create", resource_id |-> None]>>
         /\ (~dp.FLAGS.list /\ dp.FLAGS.delete) =>
              dp.ops = <<[op |-> "delete", resource_id |-> "rid"]>>
    /\ (/\ dp.pc \in {"returned", "done", "raised"}
        /\ dp.FLAGS.delete
        /\ dp.FLAGS.resource_id \in {None, ""}) =>
         \A i \in 1..Len(dp.ops) : dp.ops[i].op # "delete"

\* --delete was given without a resource_id: Vertex AI was initialized and
\* main returned with no operation performed.
C37_Witness ==
  /\ dp.pc = "returned"
  /\ dp.init # << >>
  /\ dp.FLAGS.delete
  /\ ~dp.FLAGS.list
  /\ dp.FLAGS.resource_id = None
  /\ dp.ops = << >>

====
